---------------------------- MODULE Spec2Model ----------------------------
(***************************************************************************)
(* Ratio Ghost (Python Edition), src/RatioGSpoof.py: a proxy between a     *)
(* file-sharing client and its tracker.  One thread per accepted           *)
(* connection runs handle_client; the GUI thread runs save_settings.  The  *)
(* module-level globals (seed_counts and the five policy values) are       *)
(* shared by all threads without a lock.                                   *)
(*                                                                         *)
(* Byte strings and text are sequences of one-character strings.  Indices  *)
(* into them are 0-based, as in the Python source.                         *)
(***************************************************************************)
EXTENDS Integers, Sequences, FiniteSets, TLC

(***************************************************************************)
(* Character classes and slicing (Python bytes / str primitives).          *)
(***************************************************************************)
Digits == {"0", "1", "2", "3", "4", "5", "6", "7", "8", "9"}

Letters ==
    {"a", "b", "c", "d", "e", "f", "g", "h", "i", "j", "k", "l", "m",
     "n", "o", "p", "q", "r", "s", "t", "u", "v", "w", "x", "y", "z",
     "A", "B", "C", "D", "E", "F", "G", "H", "I", "J", "K", "L", "M",
     "N", "O", "P", "Q", "R", "S", "T", "U", "V", "W", "X", "Y", "Z"}

Whitespace == {" ", "\t", "\n", "\r", "\f"}

\* data[i:i+1]: the one-element slice at 0-based i, "" past the end.
At(data, i) == IF i >= 0 /\ i < Len(data) THEN data[i + 1] ELSE ""

\* data[a:b] for 0 <= a: Python slicing clamps b to the length.
Slice(data, a, b) ==
    LET hi == IF b > Len(data) THEN Len(data) ELSE b
    IN  IF a >= hi THEN << >> ELSE SubSeq(data, a + 1, hi)

\* data.index(ch, from): the first 0-based position >= from holding ch,
\* or -1 where Python raises ValueError.
IndexOf(data, ch, from) ==
    LET hits == {i \in from..(Len(data) - 1) : data[i + 1] = ch}
    IN  IF hits = {} THEN -1 ELSE CHOOSE i \in hits : \A j \in hits : i <= j

\* data.startswith(word, at)
StartsWithAt(data, word, at) ==
    /\ at >= 0
    /\ at + Len(word) <= Len(data)
    /\ \A k \in 1..Len(word) : data[at + k] = word[k]

\* word in data
Contains(data, word) == \E at \in 0..Len(data) : StartsWithAt(data, word, at)

DigitValue(c) ==
    CASE c = "0" -> 0 [] c = "1" -> 1 [] c = "2" -> 2 [] c = "3" -> 3
      [] c = "4" -> 4 [] c = "5" -> 5 [] c = "6" -> 6 [] c = "7" -> 7
      [] c = "8" -> 8 [] c = "9" -> 9

RECURSIVE DigitsValue(_, _)
\* the decimal value of the digits of s, underscores skipped
DigitsValue(s, acc) ==
    IF s = << >> THEN acc
    ELSE IF Head(s) = "_" THEN DigitsValue(Tail(s), acc)
    ELSE DigitsValue(Tail(s), 10 * acc + DigitValue(Head(s)))

RECURSIVE Strip(_)
Strip(s) ==
    IF s # << >> /\ Head(s) \in Whitespace THEN Strip(Tail(s))
    ELSE IF s # << >> /\ s[Len(s)] \in Whitespace THEN Strip(SubSeq(s, 1, Len(s) - 1))
    ELSE s

NoInt == [ok |-> FALSE, val |-> 0]

\* int(s) on a byte string or text: surrounding whitespace, an optional
\* sign, then decimal digits that single underscores may separate.
\* ok = FALSE where Python raises ValueError.
ParseInt(s) ==
    LET t    == Strip(s)
        neg  == t # << >> /\ Head(t) = "-"
        body == IF t # << >> /\ Head(t) \in {"-", "+"} THEN Tail(t) ELSE t
        wellFormed ==
            /\ body # << >>
            /\ \A k \in 1..Len(body) : body[k] \in Digits \cup {"_"}
            /\ body[1] \in Digits
            /\ body[Len(body)] \in Digits
            /\ \A k \in 1..(Len(body) - 1) : ~(body[k] = "_" /\ body[k + 1] = "_")
    IN  IF ~wellFormed THEN NoInt
        ELSE [ok |-> TRUE,
              val |-> IF neg THEN 0 - DigitsValue(body, 0) ELSE DigitsValue(body, 0)]

(***************************************************************************)
(* bdecode: the minimal bencoding decoder.  A decoded value is a record    *)
(* [type, val]: "int" with an integer, "bytes" with a byte string, "list"  *)
(* with a sequence of values, "dict" with a sequence of [k, v] items in    *)
(* insertion order.                                                        *)
(***************************************************************************)
PyInt(n)   == [type |-> "int",   val |-> n]
PyBytes(s) == [type |-> "bytes", val |-> s]
PyList(l)  == [type |-> "list",  val |-> l]
PyDict(d)  == [type |-> "dict",  val |-> d]
PyNone     == [type |-> "none",  val |-> 0]

SameValue(a, b) == a.type = b.type /\ a.val = b.val

\* hash(key) succeeds: lists and dicts are unhashable (TypeError)
Hashable(v) == v.type \in {"int", "bytes"}

HasKey(d, key) == \E k \in 1..Len(d) : SameValue(d[k].k, key)

\* d[key] = value that leaves a key already there as it is
DictSet_keep_first(d, key, value) ==
    IF HasKey(d, key) THEN d ELSE Append(d, [k |-> key, v |-> value])

\* d[key] = value: overwrite in place, or append a new item
DictSet(d, key, value) ==
    IF HasKey(d, key)
    THEN [k \in 1..Len(d) |->
            IF SameValue(d[k].k, key) THEN [k |-> d[k].k, v |-> value] ELSE d[k]]
    ELSE Append(d, [k |-> key, v |-> value])

\* d.get(key, default)
DictGet(d, key, default) ==
    IF HasKey(d, key)
    THEN d[CHOOSE k \in 1..Len(d) : SameValue(d[k].k, key)].v
    ELSE default

\* What decode_next returns: ok = FALSE stands for a raised exception.
Raised == [ok |-> FALSE, val |-> PyNone, next |-> 0]
Returned(v, n) == [ok |-> TRUE, val |-> v, next |-> n]

RECURSIVE decode_next(_, _), decode_list(_, _, _), decode_dict(_, _, _)

decode_next(data, index) ==
    IF At(data, index) = "i" THEN
        LET end == IndexOf(data, "e", index + 1)
            number == ParseInt(Slice(data, index + 1, end))
        IN  IF end = -1 \/ ~number.ok THEN Raised
            ELSE Returned(PyInt(number.val), end + 1)
    ELSE IF At(data, index) \in Digits THEN
        LET colon == IndexOf(data, ":", index)
            length == ParseInt(Slice(data, index, colon))
            start == colon + 1
        IN  IF colon = -1 \/ ~length.ok THEN Raised
            ELSE Returned(PyBytes(Slice(data, start, start + length.val)),
                          start + length.val)
    ELSE IF At(data, index) = "l" THEN decode_list(data, index + 1, << >>)
    ELSE IF At(data, index) = "d" THEN decode_dict(data, index + 1, << >>)
    ELSE Raised

\* the list loop taking the end of the buffer for the closing "e"
decode_list_lenient(data, index, lst) ==
    IF At(data, index) \in {"e", ""} THEN Returned(PyList(lst), index + 1)
    ELSE LET item == decode_next(data, index)
         IN  IF ~item.ok THEN Raised
             ELSE decode_list(data, item.next, Append(lst, item.val))

\* the while loop of the list branch
decode_list(data, index, lst) ==
    IF At(data, index) = "e" THEN Returned(PyList(lst), index + 1)
    ELSE LET item == decode_next(data, index)
         IN  IF ~item.ok THEN Raised
             ELSE decode_list(data, item.next, Append(lst, item.val))

\* the while loop of the dictionary branch
decode_dict(data, index, d) ==
    IF At(data, index) = "e" THEN Returned(PyDict(d), index + 1)
    ELSE LET key == decode_next(data, index)
         IN  IF ~key.ok THEN Raised
             ELSE LET value == decode_next(data, key.next)
                  IN  IF ~value.ok \/ ~Hashable(key.val) THEN Raised
                      ELSE decode_dict(data, value.next,
                                       DictSet(d, key.val, value.val))

\* bdecode(data): ok = FALSE where the call raises
bdecode(data) == decode_next(data, 0)

(***************************************************************************)
(* Request parsing in handle_client (the regular expressions, written out  *)
(* as the matches they make).                                              *)
(***************************************************************************)
\* A byte that is not valid UTF-8; decode(errors="ignore") drops it.
InvalidUtf8 == {"0xFF"}

\* request_data.decode("utf-8", errors="ignore")
DecodeIgnore(data) == SelectSeq(data, LAMBDA c : c \notin InvalidUtf8)

\* first 0-based index >= from whose character is outside cls (or the length)
RunEndIn(data, from, cls) ==
    LET stops == {i \in from..(Len(data) - 1) : data[i + 1] \notin cls}
    IN  IF stops = {} THEN Len(data)
        ELSE CHOOSE i \in stops : \A j \in stops : i <= j

\* first 0-based index >= from whose character is in cls (or the length)
RunEndNotIn(data, from, cls) ==
    LET stops == {i \in from..(Len(data) - 1) : data[i + 1] \in cls}
    IN  IF stops = {} THEN Len(data)
        ELSE CHOOSE i \in stops : \A j \in stops : i <= j

GetPrefix == <<"G", "E", "T", " ", "h", "t", "t", "p", ":", "/", "/">>
HttpPrefix == <<"h", "t", "t", "p", ":", "/", "/">>
VersionPrefix == <<" ", "H", "T", "T", "P", "/", "1", ".">>

\* r"GET (http://[^ ]+) HTTP/1\.[01]" matched with its first character at p.
\* The run [^ ]+ must stop at the first space, which starts " HTTP/1.x".
GetMatchesAt(text, p) ==
    LET q == RunEndNotIn(text, p + Len(GetPrefix), {" "})
    IN  /\ StartsWithAt(text, GetPrefix, p)
        /\ q > p + Len(GetPrefix)
        /\ StartsWithAt(text, VersionPrefix, q)
        /\ At(text, q + Len(VersionPrefix)) \in {"0", "1"}

NoMatch == [ok |-> FALSE, url |-> << >>]

\* re.search(r"GET (http://[^ ]+) HTTP/1\.[01]", request_text): the leftmost
\* match anywhere in the text; url is group(1).
get_match(text) ==
    LET starts == {p \in 0..Len(text) : GetMatchesAt(text, p)}
    IN  IF starts = {} THEN NoMatch
        ELSE LET p == CHOOSE a \in starts : \A b \in starts : a <= b
             IN  [ok |-> TRUE,
                  url |-> Slice(text, p + 4,
                                RunEndNotIn(text, p + Len(GetPrefix), {" "}))]

HostChars == Letters \cup Digits \cup {"-", "."}

NoUrl == [ok |-> FALSE, host |-> << >>, port |-> 0, path |-> << >>]

\* re.match(r"http://([-a-zA-Z0-9\.]+)(?::([0-9]+))?(/.*)", url), then
\* host, port (80 without group 2) and path.  "." stops at a line feed.
url_match(url) ==
    LET hostEnd == RunEndIn(url, Len(HttpPrefix), HostChars)
        portEnd == RunEndIn(url, hostEnd + 1, Digits)
        withPort == At(url, hostEnd) = ":" /\ portEnd > hostEnd + 1
        pathStart == IF withPort THEN portEnd ELSE hostEnd
        pathEnd == RunEndNotIn(url, pathStart, {"\n"})
    IN  IF /\ StartsWithAt(url, HttpPrefix, 0)
           /\ hostEnd > Len(HttpPrefix)
           /\ At(url, pathStart) = "/"
        THEN [ok |-> TRUE,
              host |-> Slice(url, Len(HttpPrefix), hostEnd),
              port |-> IF withPort
                       THEN ParseInt(Slice(url, hostEnd + 1, portEnd)).val
                       ELSE 80,
              path |-> Slice(url, pathStart, pathEnd)]
        ELSE NoUrl

\* path.split('?', 1): the part before the first "?"
path_only(path) == Slice(path, 0, RunEndNotIn(path, 0, {"?"}))

\* path.split('?', 1): the part after the first "?", "" without one
query_string(path) == Slice(path, RunEndNotIn(path, 0, {"?"}) + 1, Len(path))

kw_info_hash == <<"i", "n", "f", "o", "_", "h", "a", "s", "h">>

\* 0-based position of the leftmost match of rf"{key}=([^&]+)" in query,
\* -1 without a match
param_pos(query, key) ==
    LET marker == key \o <<"=">>
        hits == {p \in 0..Len(query) :
                    /\ StartsWithAt(query, marker, p)
                    /\ At(query, p + Len(marker)) \notin {"", "&"}}
    IN  IF hits = {} THEN -1 ELSE CHOOSE a \in hits : \A b \in hits : a <= b

\* "key in params"
has_param(query, key) == param_pos(query, key) # -1

\* params[key]: group(1) of the match
param(query, key) ==
    LET start == param_pos(query, key) + Len(key) + 1
    IN  Slice(query, start, RunEndNotIn(query, start, {"&"}))

\* What the parsing part of handle_client makes of the received bytes:
\* kind is the branch taken, info_hash is params.get("info_hash", None)
\* with << >> standing for None.
ParseRequest(request_data) ==
    LET text  == DecodeIgnore(request_data)
        g     == get_match(text)
        m     == url_match(g.url)
        query == query_string(m.path)
        base  == [kind |-> "eligible", host |-> << >>, port |-> 0,
                  path_only |-> << >>, query |-> << >>, info_hash |-> << >>]
    IN  IF ~g.ok THEN [base EXCEPT !.kind = "no_get"]
        ELSE IF ~m.ok THEN [base EXCEPT !.kind = "bad_url"]
        ELSE IF ~Contains(query, kw_info_hash \o <<"=">>)
             THEN [base EXCEPT !.kind = "no_info_hash"]
        ELSE [base EXCEPT !.host = m.host, !.port = m.port,
                          !.path_only = path_only(m.path), !.query = query,
                          !.info_hash = IF has_param(query, kw_info_hash)
                                        THEN param(query, kw_info_hash)
                                        ELSE << >>]

(***************************************************************************)
(* Text conversions of the settings: str(), int(), float(), and the        *)
(* configparser getters.  A float is held as its value in tenths (3.0 is   *)
(* 30, 1.5 is 15); the texts of the model have at most one fractional      *)
(* digit.                                                                  *)
(***************************************************************************)
RECURSIVE FormatNat(_)
FormatNat(n) ==
    LET d == <<"0", "1", "2", "3", "4", "5", "6", "7", "8", "9">>
    IN  IF n < 10 THEN <<d[n + 1]>> ELSE FormatNat(n \div 10) \o <<d[(n % 10) + 1]>>

\* str(n) of an int
FormatInt(n) == IF n < 0 THEN <<"-">> \o FormatNat(0 - n) ELSE FormatNat(n)

\* str(x) of a float given in tenths: "3.0", "1.5", "-0.5"
FormatFloat(t) ==
    LET a == IF t < 0 THEN 0 - t ELSE t
    IN  (IF t < 0 THEN <<"-">> ELSE << >>)
            \o FormatNat(a \div 10) \o <<".">> \o FormatNat(a % 10)

\* str(b) of a bool
FormatBool(b) == IF b THEN <<"T", "r", "u", "e">> ELSE <<"F", "a", "l", "s", "e">>

\* float(s), in tenths: surrounding whitespace, an optional sign, digits
\* with an optional point.  ok = FALSE where Python raises ValueError.
ParseFloat(s) ==
    LET t     == Strip(s)
        neg   == t # << >> /\ Head(t) = "-"
        body  == IF t # << >> /\ Head(t) \in {"-", "+"} THEN Tail(t) ELSE t
        point == RunEndNotIn(body, 0, {"."})
        whole == Slice(body, 0, point)
        frac  == Slice(body, point + 1, Len(body))
        wellFormed ==
            /\ \A k \in 1..Len(whole) : whole[k] \in Digits
            /\ \A k \in 1..Len(frac) : frac[k] \in Digits
            /\ Len(whole) + Len(frac) > 0
        tenths == 10 * DigitsValue(whole, 0)
                     + (IF frac = << >> THEN 0 ELSE DigitValue(frac[1]))
    IN  IF ~wellFormed THEN NoInt
        ELSE [ok |-> TRUE, val |-> IF neg THEN 0 - tenths ELSE tenths]

\* ConfigParser.getboolean: "true"/"false" in any case (the texts str(bool)
\* writes); ok = FALSE where it raises ValueError.
ParseBool(s) ==
    IF s \in {<<"T", "r", "u", "e">>, <<"t", "r", "u", "e">>}
        THEN [ok |-> TRUE, val |-> TRUE]
    ELSE IF s \in {<<"F", "a", "l", "s", "e">>, <<"f", "a", "l", "s", "e">>}
        THEN [ok |-> TRUE, val |-> FALSE]
    ELSE [ok |-> FALSE, val |-> FALSE]

\* Module-level defaults of the five policy values.
DefaultThreshold == 5
DefaultLow == 30
DefaultHigh == 15

DefaultSettings ==
    [no_download |-> FALSE, pretend_to_seed |-> FALSE,
     min_seeders_threshold |-> DefaultThreshold,
     upload_multiplier_low |-> DefaultLow,
     upload_multiplier_high |-> DefaultHigh]

\* The [Settings] section save_config writes for the given values.
ConfigText(cfg) ==
    [no_download |-> FormatBool(cfg.no_download),
     pretend_to_seed |-> FormatBool(cfg.pretend_to_seed),
     min_seeders_threshold |-> FormatInt(cfg.min_seeders_threshold),
     upload_multiplier_low |-> FormatFloat(cfg.upload_multiplier_low),
     upload_multiplier_high |-> FormatFloat(cfg.upload_multiplier_high)]

\* No ratio_ghost.ini on disk.
NoFile == [exists |-> FALSE, text |-> ConfigText(DefaultSettings)]

\* load_config: the five values after reading the file, the defaults
\* when there is none.
load_config(file) ==
    IF ~file.exists THEN DefaultSettings
    ELSE [no_download |-> ParseBool(file.text.no_download).val,
          pretend_to_seed |-> ParseBool(file.text.pretend_to_seed).val,
          min_seeders_threshold |-> ParseInt(file.text.min_seeders_threshold).val,
          upload_multiplier_low |-> ParseFloat(file.text.upload_multiplier_low).val,
          upload_multiplier_high |-> ParseFloat(file.text.upload_multiplier_high).val]


(***************************************************************************)
(* Query rewriting and request reassembly in handle_client (lines          *)
(* 187-221).  modified_uploaded is a float: it is held in tenths, which is *)
(* exact for the multipliers of the model (multiples of 0.5) and upload    *)
(* counts below 2^53.                                                      *)
(***************************************************************************)
kw_uploaded == <<"u", "p", "l", "o", "a", "d", "e", "d">>
kw_downloaded == <<"d", "o", "w", "n", "l", "o", "a", "d", "e", "d">>
kw_left == <<"l", "e", "f", "t">>

\* re.sub(rf"({key}=)([^&]+)", r"\g<1>" + value, query, count=1): the value
\* of the leftmost match is replaced, the query is returned as it is
\* without a match
sub_first(query, key, value) ==
    LET start == param_pos(query, key) + Len(key) + 1
    IN  IF ~has_param(query, key) THEN query
        ELSE Slice(query, 0, start) \o value
                \o Slice(query, RunEndNotIn(query, start, {"&"}), Len(query))

\* lines 189-192: int(params["uploaded"]), 0 when it raises
original_uploaded(query) ==
    IF ParseInt(param(query, kw_uploaded)).ok
    THEN ParseInt(param(query, kw_uploaded)).val
    ELSE 0

\* lines 188-194: "uploaded" in params, then the value multiplied and
\* substituted as str() of the float
rewrite_uploaded(query, mult) ==
    IF has_param(query, kw_uploaded)
    THEN sub_first(query, kw_uploaded, FormatFloat(original_uploaded(query) * mult))
    ELSE query

\* lines 198-199
rewrite_downloaded(query, no_download) ==
    IF no_download /\ Contains(query, kw_downloaded \o <<"=">>)
    THEN sub_first(query, kw_downloaded, <<"0">>)
    ELSE query

\* lines 203-204
rewrite_left(query, pretend) ==
    IF pretend /\ Contains(query, kw_left \o <<"=">>)
    THEN sub_first(query, kw_left, <<"0">>)
    ELSE query

RECURSIVE split_lines(_)
\* text.split("\r\n")
split_lines(text) ==
    LET hits == {p \in 0..Len(text) : StartsWithAt(text, <<"\r", "\n">>, p)}
    IN  IF hits = {} THEN <<text>>
        ELSE LET p == CHOOSE a \in hits : \A b \in hits : a <= b
             IN  <<Slice(text, 0, p)>> \o split_lines(Slice(text, p + 2, Len(text)))

\* line.lower().startswith("host:")
is_host_line(line) ==
    /\ Len(line) >= 5
    /\ line[1] \in {"h", "H"} /\ line[2] \in {"o", "O"} /\ line[3] \in {"s", "S"}
    /\ line[4] \in {"t", "T"} /\ line[5] = ":"

RECURSIVE join_lines(_)
\* "\r\n".join(lines)
join_lines(lines) ==
    IF lines = << >> THEN << >>
    ELSE IF Len(lines) = 1 THEN lines[1]
    ELSE lines[1] \o <<"\r", "\n">> \o join_lines(Tail(lines))

RECURSIVE updated_headers(_, _, _)
\* lines 213-218: the Host line replaced, empty lines dropped
updated_headers(lines, host, port) ==
    IF lines = << >> THEN << >>
    ELSE IF is_host_line(Head(lines))
         THEN <<<<"H", "o", "s", "t", ":", " ">> \o host \o <<":">> \o FormatInt(port)>>
                 \o updated_headers(Tail(lines), host, port)
    ELSE IF Head(lines) # << >>
         THEN <<Head(lines)>> \o updated_headers(Tail(lines), host, port)
    ELSE updated_headers(Tail(lines), host, port)

\* lines 208-221: the request sent to the tracker for the parsed request
\* req, the decoded text and the rewritten query
reassemble(req, text, query) ==
    LET new_path == IF query # << >> THEN req.path_only \o <<"?">> \o query
                    ELSE req.path_only
        headers == join_lines(updated_headers(Tail(split_lines(text)),
                                              req.host, req.port))
                      \o <<"\r", "\n", "\r", "\n">>
    IN  <<"G", "E", "T", " ">> \o new_path \o <<" ", "H", "T", "T", "P", "/", "1", ".", "1", "\r", "\n">> \o headers


(***************************************************************************)
(* The requests clients send and the replies trackers give in the model.   *)
(***************************************************************************)
\* the announce of the end-to-end scenarios, swarm ABC
ReqAnnounceABC ==
    <<"G", "E", "T", " ", "h", "t", "t", "p", ":", "/", "/", "t", "r",
      "a", "c", "k", "e", "r", ".", "e", "x", "a", "m", "p", "l", "e",
      ".", "c", "o", "m", ":", "6", "9", "6", "9", "/", "a", "n", "n",
      "o", "u", "n", "c", "e", "?", "i", "n", "f", "o", "_", "h", "a",
      "s", "h", "=", "A", "B", "C", "&", "u", "p", "l", "o", "a", "d",
      "e", "d", "=", "1", "0", "0", "0", "&", "d", "o", "w", "n", "l",
      "o", "a", "d", "e", "d", "=", "5", "0", "0", "&", "l", "e", "f",
      "t", "=", "0", "&", "e", "v", "e", "n", "t", "=", "s", "t", "a",
      "r", "t", "e", "d", " ", "H", "T", "T", "P", "/", "1", ".", "1",
      "\r", "\n", "H", "o", "s", "t", ":", " ", "t", "r", "a", "c", "k",
      "e", "r", ".", "e", "x", "a", "m", "p", "l", "e", ".", "c", "o",
      "m", ":", "6", "9", "6", "9", "\r", "\n", "\r", "\n">>

\* an HTTP/1.0 announce of swarm XYZ, no port, with a byte that is not UTF-8
ReqAnnounceXYZ ==
    <<"G", "0xFF", "E", "T", " ", "h", "t", "t", "p", ":", "/", "/",
      "t", ".", "c", "o", "/", "a", "?", "i", "n", "f", "o", "_", "h",
      "a", "s", "h", "=", "X", "Y", "Z", "&", "u", "p", "l", "o", "a",
      "d", "e", "d", "=", "7", " ", "H", "T", "T", "P", "/", "1", ".",
      "0", "\r", "\n", "\r", "\n">>

\* info_hash= is there but its value is empty
ReqEmptyHash ==
    <<"G", "E", "T", " ", "h", "t", "t", "p", ":", "/", "/", "t", ".",
      "c", "o", "/", "a", "?", "i", "n", "f", "o", "_", "h", "a", "s",
      "h", "=", "&", "u", "p", "l", "o", "a", "d", "e", "d", "=", "7", " ",
       "H", "T", "T", "P", "/", "1", ".", "1", "\r", "\n", "\r", "\n">>

\* an absolute-URI GET without info_hash
ReqNoHash ==
    <<"G", "E", "T", " ", "h", "t", "t", "p", ":", "/", "/", "t", ".",
      "c", "o", "/", "s", "c", "r", "a", "p", "e", "?", "x", "=", "1", " ",
       "H", "T", "T", "P", "/", "1", ".", "1", "\r", "\n", "\r", "\n">>

\* a GET of a relative URI
ReqRelative ==
    <<"G", "E", "T", " ", "/", "a", "?", "i", "n", "f", "o", "_", "h",
      "a", "s", "h", "=", "A", "B", "C", " ", "H", "T", "T", "P", "/",
      "1", ".", "1", "\r", "\n", "\r", "\n">>

\* an absolute URI whose host does not match the URL pattern
ReqBadHost ==
    <<"G", "E", "T", " ", "h", "t", "t", "p", ":", "/", "/", "t", "_",
      "c", "o", "/", "a", "?", "i", "n", "f", "o", "_", "h", "a", "s",
      "h", "=", "A", "B", "C", " ", "H", "T", "T", "P", "/", "1", ".",
      "1", "\r", "\n", "\r", "\n">>

\* map{complete: 10, incomplete: 2, interval: 1800}
ReplyFull ==
    <<"d", "8", ":", "c", "o", "m", "p", "l", "e", "t", "e", "i", "1",
      "0", "e", "1", "0", ":", "i", "n", "c", "o", "m", "p", "l", "e",
      "t", "e", "i", "2", "e", "8", ":", "i", "n", "t", "e", "r", "v",
      "a", "l", "i", "1", "8", "0", "0", "e", "e">>

\* map{complete: 2}
ReplyTwo ==
    <<"d", "8", ":", "c", "o", "m", "p", "l", "e", "t", "e", "i", "2",
      "e", "e">>

\* map{complete: b"10"}, the count as a byte string
ReplyText ==
    <<"d", "8", ":", "c", "o", "m", "p", "l", "e", "t", "e", "2", ":",
      "1", "0", "e">>

\* map{complete: b"x"}
ReplyWord ==
    <<"d", "8", ":", "c", "o", "m", "p", "l", "e", "t", "e", "1", ":",
      "x", "e">>

\* map{complete: []}
ReplyList ==
    <<"d", "8", ":", "c", "o", "m", "p", "l", "e", "t", "e", "l", "e",
      "e">>

\* map{interval: 9}
ReplyNoComplete ==
    <<"d", "8", ":", "i", "n", "t", "e", "r", "v", "a", "l", "i", "9",
      "e", "e">>

\* the empty map
ReplyEmptyMap ==
    <<"d", "e">>

\* a bare integer
ReplyInt ==
    <<"i", "5", "e">>

\* a map cut before its closing e
ReplyTruncated ==
    <<"d", "8", ":", "c", "o", "m", "p", "l", "e", "t", "e", "i", "5",
      "e">>

\* an HTTP status line before the map
ReplyHttp ==
    <<"H", "T", "T", "P", "/", "1", ".", "1", " ", "2", "0", "0", " ",
      "O", "K", "\r", "\n", "\r", "\n", "d", "e">>

\* the empty byte string: the tracker closed without sending a byte
ReplyNothing == << >>

\* a POST whose second line holds the text of an absolute-URI announce
ReqLaterGet ==
    <<"P", "O", "S", "T", " ", "/", "x", " ", "H", "T", "T", "P", "/", "1",
      ".", "1", "\r", "\n", "X", ":", " ", "G", "E", "T", " ", "h", "t",
      "t", "p", ":", "/", "/", "t", ".", "c", "o", "/", "a", "?", "i", "n",
      "f", "o", "_", "h", "a", "s", "h", "=", "A", "B", "C", "&", "u", "p",
      "l", "o", "a", "d", "e", "d", "=", "7", " ", "H", "T", "T", "P", "/",
      "1", ".", "1", "\r", "\n", "\r", "\n">>

\* the method FORGET, which ends in GET
ReqForget ==
    <<"F", "O", "R", "G", "E", "T", " ", "h", "t", "t", "p", ":", "/", "/",
      "t", ".", "c", "o", "/", "a", "?", "i", "n", "f", "o", "_", "h", "a",
      "s", "h", "=", "A", "B", "C", "&", "u", "p", "l", "o", "a", "d", "e",
      "d", "=", "7", " ", "H", "T", "T", "P", "/", "1", ".", "1", "\r",
      "\n", "\r", "\n">>

LaterGets == <<ReqLaterGet, ReqForget>>

\* The fields announces are put together from: the swarm, upload counts
\* (numeric and not), an unknown field whose name ends in "uploaded",
\* download and remaining-bytes counts (also empty), the event.
QueryFields ==
    <<<<"i", "n", "f", "o", "_", "h", "a", "s", "h", "=", "A", "B", "C">>,
      <<"u", "p", "l", "o", "a", "d", "e", "d", "=", "1", "0", "0", "0">>,
      <<"u", "p", "l", "o", "a", "d", "e", "d", "=", "7">>,
      <<"u", "p", "l", "o", "a", "d", "e", "d", "=", "a", "b", "c">>,
      <<"x", "u", "p", "l", "o", "a", "d", "e", "d", "=", "5">>,
      <<"d", "o", "w", "n", "l", "o", "a", "d", "e", "d", "=", "5", "0", "0">>,
      <<"d", "o", "w", "n", "l", "o", "a", "d", "e", "d", "=">>,
      <<"l", "e", "f", "t", "=", "9">>,
      <<"l", "e", "f", "t", "=">>,
      <<"e", "v", "e", "n", "t", "=", "s", "t", "a", "r", "t", "e", "d">>>>

AnnounceHead ==
    <<"G", "E", "T", " ", "h", "t", "t", "p", ":", "/", "/", "t", ".", "c",
      "o", ":", "6", "9", "6", "9", "/", "a", "n", "n", "o", "u", "n", "c",
      "e", "?">>

AnnounceTail ==
    <<" ", "H", "T", "T", "P", "/", "1", ".", "1", "\r", "\n", "H", "o",
      "s", "t", ":", " ", "t", ".", "c", "o", "\r", "\n", "U", "s", "e",
      "r", "-", "A", "g", "e", "n", "t", ":", " ", "x", "\r", "\n", "\r",
      "\n">>

RECURSIVE join_fields(_)
\* the fields with "&" between them
join_fields(fields) ==
    IF fields = << >> THEN << >>
    ELSE IF Len(fields) = 1 THEN QueryFields[fields[1]]
    ELSE QueryFields[fields[1]] \o <<"&">> \o join_fields(Tail(fields))

\* the announce whose query holds the given fields, in that order
Announce(fields) == AnnounceHead \o join_fields(fields) \o AnnounceTail

\* The pieces tracker replies are put together from: the openers and the
\* closer, a whole integer and a whole string, a string that declares one
\* byte more than it brings, an integer without its "e", a lone digit and
\* a byte no value starts with.
Chunks ==
    <<<<"d">>,
      <<"l">>,
      <<"e">>,
      <<"i", "1", "e">>,
      <<"1", ":", "a">>,
      <<"2", ":", "a">>,
      <<"i", "1">>,
      <<"1">>,
      <<"x">>>>

RECURSIVE join_chunks(_)
join_chunks(list) ==
    IF list = << >> THEN << >> ELSE Chunks[Head(list)] \o join_chunks(Tail(list))

\* The keys and the values of the maps trackers send.
kw_incomplete == <<"i", "n", "c", "o", "m", "p", "l", "e", "t", "e">>
kw_interval == <<"i", "n", "t", "e", "r", "v", "a", "l">>
MapKeys == <<<<"c", "o", "m", "p", "l", "e", "t", "e">>, kw_incomplete, kw_interval>>
MapValues == <<5, 2, 1800>>

\* bencoding of a byte string and of an integer
bencode_bytes(str) == FormatInt(Len(str)) \o <<":">> \o str
bencode_int(n) == <<"i">> \o FormatInt(n) \o <<"e">>

RECURSIVE bencode_pairs(_)
bencode_pairs(pairs) ==
    IF pairs = << >> THEN << >>
    ELSE bencode_bytes(Head(pairs).k) \o bencode_int(Head(pairs).v)
            \o bencode_pairs(Tail(pairs))

\* the bencoded map with the given key/value pairs, in that order
bencode_map(pairs) == <<"d">> \o bencode_pairs(pairs) \o <<"e">>

Requests ==
    <<ReqAnnounceABC, ReqAnnounceXYZ, ReqEmptyHash,
      ReqNoHash, ReqRelative, ReqBadHost>>

Replies ==
    <<ReplyFull, ReplyTwo, ReplyText, ReplyWord,
      ReplyList, ReplyNoComplete, ReplyEmptyMap, ReplyInt,
      ReplyTruncated, ReplyHttp, ReplyNothing>>

(***************************************************************************)
(* Bounds of the model.                                                    *)
(***************************************************************************)
\* connections the Listener accepts, each handled by its own thread
MaxConn == 2
\* clicks on "Save Settings"
MaxSaves == 1
\* fields in the query of a composed announce
MaxFields == 3
\* pieces in a composed tracker reply
MaxChunks == 3
\* key/value pairs in a map a tracker sends
MaxPairs == 3

Conns == 1..MaxConn

RECURSIVE FieldList(_)
\* the n-th list of fields, n >= 1: lists of one field first, then of two, ...
FieldList(n) ==
    IF n = 0 THEN << >>
    ELSE FieldList((n - 1) \div Len(QueryFields))
            \o <<((n - 1) % Len(QueryFields)) + 1>>

RECURSIVE NumLists(_)
\* how many lists of 1..k fields there are
NumLists(k) == IF k = 0 THEN 0 ELSE Len(QueryFields) * (NumLists(k - 1) + 1)

\* Indices of what a client can send: the requests above, the two with a
\* GET that is not on the first line, then the composed announces.
FirstLaterGet == Len(Requests) + 1
FirstAnnounce == FirstLaterGet + Len(LaterGets)
NumReceived == Len(Requests) + Len(LaterGets) + NumLists(MaxFields)

Received(i) ==
    IF i < FirstLaterGet THEN Requests[i]
    ELSE IF i < FirstAnnounce THEN LaterGets[i - FirstLaterGet + 1]
    ELSE Announce(FieldList(i - FirstAnnounce + 1))

RECURSIVE ChunkList(_)
\* the n-th list of pieces, n >= 1
ChunkList(n) ==
    IF n = 0 THEN << >>
    ELSE ChunkList((n - 1) \div Len(Chunks)) \o <<((n - 1) % Len(Chunks)) + 1>>

RECURSIVE NumChunkLists(_)
NumChunkLists(k) == IF k = 0 THEN 0 ELSE Len(Chunks) * (NumChunkLists(k - 1) + 1)

\* the n-th composed reply
Buffer(n) == join_chunks(ChunkList(n))

NumPairs == Len(MapKeys) * Len(MapValues)

\* the q-th key/value pair
Pair(q) == [k |-> MapKeys[((q - 1) \div Len(MapValues)) + 1],
            v |-> MapValues[((q - 1) % Len(MapValues)) + 1]]

RECURSIVE PairList(_)
\* the n-th list of pairs, n >= 0; the empty list is the 0-th
PairList(n) ==
    IF n = 0 THEN << >>
    ELSE PairList((n - 1) \div NumPairs) \o <<Pair(((n - 1) % NumPairs) + 1)>>

RECURSIVE NumPairLists(_)
NumPairLists(k) == IF k = 0 THEN 0 ELSE NumPairs * (NumPairLists(k - 1) + 1)

\* the n-th map reply
MapReply(n) == bencode_map(PairList(n))

\* ParseRequest of the requests written out above
Parsed == [i \in 1..(FirstAnnounce - 1) |-> ParseRequest(Received(i))]

\* ParseRequest of the i-th request a client can send
Parse(i) == IF i < FirstAnnounce THEN Parsed[i] ELSE ParseRequest(Received(i))


(***************************************************************************)
(* What the operator types into the settings panel before a click on       *)
(* "Save Settings": the three entry texts and the two check boxes.         *)
(***************************************************************************)
SettingsInputs ==
    { [low |-> <<"2", ".", "0">>, high |-> <<"1", ".", "0">>,
       threshold |-> <<"1", "0">>, no_download |-> TRUE, pretend |-> TRUE],
      [low |-> <<"2", ".", "5">>, high |-> <<"x">>,
       threshold |-> <<"1", "0">>, no_download |-> TRUE, pretend |-> FALSE],
      [low |-> << >>, high |-> <<"1", ".", "0">>,
       threshold |-> <<"2">>, no_download |-> FALSE, pretend |-> TRUE],
      [low |-> <<"2", ".", "0">>, high |-> <<"1", ".", "0">>,
       threshold |-> <<"7", ".", "5">>, no_download |-> TRUE, pretend |-> TRUE] }

\* A ratio_ghost.ini an earlier run saved.
SavedFile ==
    [exists |-> TRUE,
     text |-> ConfigText([no_download |-> TRUE, pretend_to_seed |-> FALSE,
                          min_seeders_threshold |-> 2,
                          upload_multiplier_low |-> 40,
                          upload_multiplier_high |-> 20])]

InitialFiles == {NoFile, SavedFile}

\* Files saved with "Pretend to Seed" ticked, without and with "Report 0
\* Download".
PretendFile ==
    [exists |-> TRUE,
     text |-> ConfigText([DefaultSettings EXCEPT !.pretend_to_seed = TRUE])]

BothFile ==
    [exists |-> TRUE,
     text |-> ConfigText([DefaultSettings EXCEPT !.no_download = TRUE,
                                                 !.pretend_to_seed = TRUE])]

PolicyFiles == InitialFiles \cup {PretendFile, BothFile}

VARIABLES
    seed_counts,             \* the global dict: info_hash -> seed count
    NO_DOWNLOAD,             \* the five policy globals
    PRETEND_TO_SEED,
    MIN_SEEDERS_THRESHOLD,
    UPLOAD_MULTIPLIER_LOW,
    UPLOAD_MULTIPLIER_HIGH,
    config_file,             \* ratio_ghost.ini
    pc,                      \* per connection: where its handler thread is
    request_data,            \* per connection: index in Requests, 0 before recv
    seed_read,               \* per handler: what line 181 found in seed_counts
    threshold_read,          \* per handler: MIN_SEEDERS_THRESHOLD as read
    multiplier,              \* per handler: the local of lines 182/184
    no_download_read,        \* per handler: NO_DOWNLOAD as read at line 198
    pretend_read,            \* per handler: PRETEND_TO_SEED as read at line 203
    rewritten,               \* per handler: query_string as rewritten so far
    modified_request,        \* per handler: the request built for the tracker
    tracker_response,        \* per handler: what forward_to_tracker returned
    decoded,                 \* per handler: the local of lines 229/232
    client_socket,           \* per connection: the calls made on the client socket
    tracker_sock,            \* per connection: the calls made towards the tracker
    stored,                  \* per handler: it has assigned seed_counts[info_hash]
    gui_pc,                  \* where save_settings is
    entries,                 \* the Tk variables of the settings panel
    saves,                   \* clicks on "Save Settings" so far
    settled                  \* the settings as they stood whenever no save was running

policy == <<NO_DOWNLOAD, PRETEND_TO_SEED, MIN_SEEDERS_THRESHOLD,
            UPLOAD_MULTIPLIER_LOW, UPLOAD_MULTIPLIER_HIGH>>
locals == <<request_data, seed_read, threshold_read, multiplier,
            no_download_read, pretend_read, rewritten, modified_request,
            tracker_response, decoded>>
sockets == <<client_socket, tracker_sock>>
gui == <<gui_pc, entries, saves, settled, config_file>>
vars == <<seed_counts, policy, pc, locals, sockets, stored, gui>>

\* The five globals as one record.
Settings ==
    [no_download |-> NO_DOWNLOAD, pretend_to_seed |-> PRETEND_TO_SEED,
     min_seeders_threshold |-> MIN_SEEDERS_THRESHOLD,
     upload_multiplier_low |-> UPLOAD_MULTIPLIER_LOW,
     upload_multiplier_high |-> UPLOAD_MULTIPLIER_HIGH]

Unknown == [known |-> FALSE, count |-> 0]
NoResponse == [none |-> TRUE, data |-> << >>]

\* main(): load_config(), start_proxy_server(), RatioGhostGUI(root), with
\* one of the given files on disk.
Start(files) ==
    /\ config_file \in files
    /\ seed_counts = [k \in {} |-> 0]
    /\ NO_DOWNLOAD = load_config(config_file).no_download
    /\ PRETEND_TO_SEED = load_config(config_file).pretend_to_seed
    /\ MIN_SEEDERS_THRESHOLD = load_config(config_file).min_seeders_threshold
    /\ UPLOAD_MULTIPLIER_LOW = load_config(config_file).upload_multiplier_low
    /\ UPLOAD_MULTIPLIER_HIGH = load_config(config_file).upload_multiplier_high
    /\ pc = [h \in Conns |-> "listen"]
    /\ request_data = [h \in Conns |-> 0]
    /\ seed_read = [h \in Conns |-> Unknown]
    /\ threshold_read = [h \in Conns |-> 0]
    /\ multiplier = [h \in Conns |-> 0]
    /\ no_download_read = [h \in Conns |-> FALSE]
    /\ pretend_read = [h \in Conns |-> FALSE]
    /\ rewritten = [h \in Conns |-> << >>]
    /\ modified_request = [h \in Conns |-> << >>]
    /\ tracker_response = [h \in Conns |-> NoResponse]
    /\ decoded = [h \in Conns |-> Raised]
    /\ client_socket = [h \in Conns |-> << >>]
    /\ tracker_sock = [h \in Conns |-> << >>]
    /\ stored = [h \in Conns |-> FALSE]
    /\ gui_pc = "idle"
    /\ entries = [low |-> FormatFloat(load_config(config_file).upload_multiplier_low),
                  high |-> FormatFloat(load_config(config_file).upload_multiplier_high),
                  threshold |-> FormatInt(load_config(config_file).min_seeders_threshold),
                  no_download |-> load_config(config_file).no_download,
                  pretend |-> load_config(config_file).pretend_to_seed]
    /\ saves = 0
    /\ settled = {load_config(config_file)}

Init == Start(InitialFiles)


(***************************************************************************)
(* Socket calls, as the model records them.                                *)
(***************************************************************************)
\* client_socket.sendall(data).  Whether the call returns or raises, the
\* calls that follow it are the same: forward_request catches the error
\* and closes, handle_client catches it at line 246 and closes.
Sent(data) == [op |-> "sendall", data |-> data]
\* client_socket.close()
Closed == [op |-> "close", data |-> << >>]

\* forward_request(client_socket, data): sendall on the client socket,
\* an error of it caught and logged, then close.
forward_request(sock, data) == sock \o <<Sent(data), Closed>>

\* a handler without the close of its finally clause
finally_without_close(sock) == sock

\* The finally clause of handle_client.
finally(sock) == Append(sock, Closed)

\* tracker_calls with a second attempt after a failed write
tracker_calls_retry(outcome) ==
    CASE outcome = "connect_failed" -> <<[op |-> "connect", ok |-> FALSE]>>
      [] outcome = "send_failed" ->
            <<[op |-> "connect", ok |-> TRUE], [op |-> "sendall", ok |-> FALSE],
              [op |-> "close", ok |-> TRUE], [op |-> "connect", ok |-> TRUE],
              [op |-> "sendall", ok |-> FALSE], [op |-> "close", ok |-> TRUE]>>
      [] outcome = "recv_failed" ->
            <<[op |-> "connect", ok |-> TRUE], [op |-> "sendall", ok |-> TRUE],
              [op |-> "recv", ok |-> FALSE], [op |-> "close", ok |-> TRUE]>>
      [] outcome = "reply" ->
            <<[op |-> "connect", ok |-> TRUE], [op |-> "sendall", ok |-> TRUE],
              [op |-> "recv", ok |-> TRUE], [op |-> "close", ok |-> TRUE]>>

\* The calls forward_to_tracker makes towards the tracker, by how far it
\* gets; "reply" is a read up to the tracker's close.
tracker_calls(outcome) ==
    CASE outcome = "connect_failed" -> <<[op |-> "connect", ok |-> FALSE]>>
      [] outcome = "send_failed" ->
            <<[op |-> "connect", ok |-> TRUE], [op |-> "sendall", ok |-> FALSE],
              [op |-> "close", ok |-> TRUE]>>
      [] outcome = "recv_failed" ->
            <<[op |-> "connect", ok |-> TRUE], [op |-> "sendall", ok |-> TRUE],
              [op |-> "recv", ok |-> FALSE], [op |-> "close", ok |-> TRUE]>>
      [] outcome = "reply" ->
            <<[op |-> "connect", ok |-> TRUE], [op |-> "sendall", ok |-> TRUE],
              [op |-> "recv", ok |-> TRUE], [op |-> "close", ok |-> TRUE]>>

Failures == {"connect_failed", "send_failed", "recv_failed"}
Outcomes == Failures \cup {"reply"}

\* forward_to_tracker: None after any failure, else the bytes read.
forward_to_tracker(outcome, reply) ==
    IF outcome \in Failures THEN NoResponse ELSE [none |-> FALSE, data |-> reply]

\* "if tracker_response is not None:" -- b"" taken for a reply
Truthy_not_none(response) == ~response.none

\* "if tracker_response:" -- neither None nor b""
Truthy(response) == ~response.none /\ response.data # << >>

\* "info_hash in seed_counts and seed_counts[info_hash]"
lookup(counts, info_hash) ==
    IF info_hash \in DOMAIN counts
    THEN [known |-> TRUE, count |-> counts[info_hash]]
    ELSE Unknown

\* lines 181-184 with > for >=
select_multiplier_strict(seen, threshold, low, high) ==
    IF seen.known /\ seen.count > threshold THEN high ELSE low

\* lines 181-184, from what was read
select_multiplier(seen, threshold, low, high) ==
    IF seen.known /\ seen.count >= threshold THEN high ELSE low

kw_complete == <<"c", "o", "m", "p", "l", "e", "t", "e">>

\* "decoded and isinstance(decoded, dict)", decoded = None after a raise
is_map(dec) == dec.ok /\ dec.val.type = "dict" /\ dec.val.val # << >>

\* int(v) of a decoded value: ok = FALSE on ValueError / TypeError
to_int(v) ==
    IF v.type = "int" THEN [ok |-> TRUE, val |-> v.val]
    ELSE IF v.type = "bytes" THEN ParseInt(v.val)
    ELSE NoInt

\* int(decoded[b"complete"]): no default, a map without the key counts as
\* a value int() rejects
complete_of_required(dec) ==
    to_int(DictGet(dec.val.val, PyBytes(kw_complete), PyNone))

\* int(decoded.get(b"complete", b"0"))
complete_of(dec) ==
    to_int(DictGet(dec.val.val, PyBytes(kw_complete), PyBytes(<<"0">>)))

\* lines 234-240 with a response that failed to decode counted as 0 seeds
seed_update_on_failure(dec, hash) ==
    IF ~dec.ok /\ hash # << >> THEN [action |-> "store", count |-> 0]
    ELSE IF is_map(dec) /\ hash # << >>
    THEN IF complete_of(dec).ok
         THEN [action |-> "store", count |-> complete_of(dec).val]
         ELSE [action |-> "raise", count |-> 0]
    ELSE [action |-> "skip", count |-> 0]

\* lines 234-240, what becomes of seed_counts[info_hash]: "store" the
\* count, "raise" out of int(), or "skip" the update
seed_update(dec, hash) ==
    IF is_map(dec) /\ hash # << >>
    THEN IF complete_of(dec).ok
         THEN [action |-> "store", count |-> complete_of(dec).val]
         ELSE [action |-> "raise", count |-> 0]
    ELSE [action |-> "skip", count |-> 0]

\* seed_counts[info_hash] = count
store(counts, info_hash, count) ==
    [k \in DOMAIN counts \cup {info_hash} |->
        IF k = info_hash THEN count ELSE counts[k]]

info_hash(h) == Parse(request_data[h]).info_hash

(***************************************************************************)
(* The Listener and the connection handler threads.                        *)
(***************************************************************************)
\* server_loop: accept() and start a thread running handle_client
Accept(h) ==
    /\ pc[h] = "listen"
    /\ \A g \in Conns : g < h => pc[g] # "listen"
    /\ pc' = [pc EXCEPT ![h] = "recv"]
    /\ UNCHANGED <<seed_counts, policy, locals, sockets, stored, gui>>

\* client_socket.recv(8192) raises: caught at line 246, then finally
RecvFails(h) ==
    /\ pc[h] = "recv"
    /\ client_socket' = [client_socket EXCEPT ![h] = finally(@)]
    /\ pc' = [pc EXCEPT ![h] = "done"]
    /\ UNCHANGED <<seed_counts, policy, locals, tracker_sock, stored, gui>>

\* recv returns b"": close, return, finally
RecvNothing(h) ==
    /\ pc[h] = "recv"
    /\ client_socket' = [client_socket EXCEPT ![h] = finally(Append(@, Closed))]
    /\ pc' = [pc EXCEPT ![h] = "done"]
    /\ UNCHANGED <<seed_counts, policy, locals, tracker_sock, stored, gui>>

\* recv returns a request; lines 131-176 parse it.  The two "forwarding
\* unmodified" branches call forward_request on the client socket, the
\* URL failure branch closes; an eligible request goes on to line 181.
RecvRequest(h, i) ==
    /\ pc[h] = "recv"
    /\ request_data' = [request_data EXCEPT ![h] = i]
    /\ IF Parse(i).kind \in {"no_get", "no_info_hash"}
       THEN /\ client_socket' = [client_socket EXCEPT
                                   ![h] = finally(forward_request(@, Received(i)))]
            /\ pc' = [pc EXCEPT ![h] = "done"]
       ELSE IF Parse(i).kind = "bad_url"
       THEN /\ client_socket' = [client_socket EXCEPT ![h] = finally(Append(@, Closed))]
            /\ pc' = [pc EXCEPT ![h] = "done"]
       ELSE /\ pc' = [pc EXCEPT ![h] = "lookup"]
            /\ UNCHANGED client_socket
    /\ rewritten' = [rewritten EXCEPT ![h] = Parse(i).query]
    /\ UNCHANGED <<seed_counts, policy, seed_read, threshold_read, multiplier,
                   no_download_read, pretend_read, modified_request,
                   tracker_response, decoded, tracker_sock, stored, gui>>

\* a handler that looks seed_counts up again once it has stored its own
\* reply's count
ReadSeedCountAgain(h) ==
    /\ pc[h] \in {"lookup", "relay"}
    /\ seed_read' = [seed_read EXCEPT ![h] = lookup(seed_counts, info_hash(h))]
    /\ pc' = [pc EXCEPT ![h] = IF pc[h] = "relay" THEN "relay"
                               ELSE IF seed_read'[h].known THEN "threshold"
                               ELSE "multiplier"]
    /\ UNCHANGED <<seed_counts, policy, request_data, threshold_read, multiplier,
                   no_download_read, pretend_read, rewritten, modified_request,
                   tracker_response, decoded, sockets, stored, gui>>

\* line 181, left operand: the handler's read of seed_counts
ReadSeedCount(h) ==
    /\ pc[h] = "lookup"
    /\ seed_read' = [seed_read EXCEPT ![h] = lookup(seed_counts, info_hash(h))]
    /\ pc' = [pc EXCEPT ![h] = IF seed_read'[h].known THEN "threshold" ELSE "multiplier"]
    /\ UNCHANGED <<seed_counts, policy, request_data, threshold_read, multiplier,
                   no_download_read, pretend_read, rewritten, modified_request,
                   tracker_response, decoded, sockets, stored, gui>>

\* line 181, right operand: MIN_SEEDERS_THRESHOLD is read only when the
\* swarm is known
ReadThreshold(h) ==
    /\ pc[h] = "threshold"
    /\ threshold_read' = [threshold_read EXCEPT ![h] = MIN_SEEDERS_THRESHOLD]
    /\ pc' = [pc EXCEPT ![h] = "multiplier"]
    /\ UNCHANGED <<seed_counts, policy, request_data, seed_read, multiplier,
                   no_download_read, pretend_read, rewritten, modified_request,
                   tracker_response, decoded, sockets, stored, gui>>

\* lines 182/184: one of the two multiplier globals is read; lines 188-194
\* rewrite the uploaded value with it
SelectMultiplier(h) ==
    /\ pc[h] = "multiplier"
    /\ multiplier' = [multiplier EXCEPT ![h] =
            select_multiplier(seed_read[h], threshold_read[h],
                              UPLOAD_MULTIPLIER_LOW, UPLOAD_MULTIPLIER_HIGH)]
    /\ rewritten' = [rewritten EXCEPT ![h] = rewrite_uploaded(@, multiplier'[h])]
    /\ pc' = [pc EXCEPT ![h] = "no_download"]
    /\ UNCHANGED <<seed_counts, policy, request_data, seed_read, threshold_read,
                   no_download_read, pretend_read, modified_request,
                   tracker_response, decoded, sockets, stored, gui>>

\* line 198: NO_DOWNLOAD is read; line 199 rewrites the downloaded value
ReadNoDownload(h) ==
    /\ pc[h] = "no_download"
    /\ no_download_read' = [no_download_read EXCEPT ![h] = NO_DOWNLOAD]
    /\ rewritten' = [rewritten EXCEPT ![h] = rewrite_downloaded(@, NO_DOWNLOAD)]
    /\ pc' = [pc EXCEPT ![h] = "pretend"]
    /\ UNCHANGED <<seed_counts, policy, request_data, seed_read, threshold_read,
                   multiplier, pretend_read, modified_request,
                   tracker_response, decoded, sockets, stored, gui>>

\* line 203: PRETEND_TO_SEED is read; line 204 rewrites the left value and
\* lines 208-221 put the request for the tracker together
ReadPretend(h) ==
    /\ pc[h] = "pretend"
    /\ pretend_read' = [pretend_read EXCEPT ![h] = PRETEND_TO_SEED]
    /\ rewritten' = [rewritten EXCEPT ![h] = rewrite_left(@, PRETEND_TO_SEED)]
    /\ modified_request' = [modified_request EXCEPT
            ![h] = reassemble(Parse(request_data[h]),
                              DecodeIgnore(Received(request_data[h])),
                              rewritten'[h])]
    /\ pc' = [pc EXCEPT ![h] = "forward"]
    /\ UNCHANGED <<seed_counts, policy, request_data, seed_read, threshold_read,
                   multiplier, no_download_read, tracker_response, decoded,
                   sockets, stored, gui>>

\* line 225: forward_to_tracker, then "if tracker_response:"; without a
\* response the handler logs and falls to finally
ForwardAnswered(h, outcome, reply) ==
    /\ pc[h] = "forward"
    /\ tracker_sock' = [tracker_sock EXCEPT ![h] = @ \o tracker_calls(outcome)]
    /\ tracker_response' = [tracker_response EXCEPT
            ![h] = forward_to_tracker(outcome, reply)]
    /\ IF Truthy(tracker_response'[h])
       THEN /\ pc' = [pc EXCEPT ![h] = "decode"]
            /\ UNCHANGED client_socket
       ELSE /\ pc' = [pc EXCEPT ![h] = "done"]
            /\ client_socket' = [client_socket EXCEPT ![h] = finally(@)]
    /\ UNCHANGED <<seed_counts, policy, request_data, seed_read, threshold_read,
                   multiplier, no_download_read, pretend_read, rewritten,
                   modified_request, decoded, stored, gui>>

\* the tracker's answer is the i-th of Replies
Forward(h, outcome, i) == ForwardAnswered(h, outcome, Replies[i])

\* the tracker's answer is the n-th composed reply
ForwardBuffer(h, n) == ForwardAnswered(h, "reply", Buffer(n))

\* the tracker's answer is the n-th map
ForwardMap(h, n) == ForwardAnswered(h, "reply", MapReply(n))

\* lines 227-242: decode the response and assign seed_counts[info_hash];
\* an int() that raises is caught at line 246 and the handler falls to
\* finally
UpdateSeedCount(h) ==
    LET update == seed_update(bdecode(tracker_response[h].data), info_hash(h))
    IN  /\ pc[h] = "decode"
        /\ decoded' = [decoded EXCEPT ![h] = bdecode(tracker_response[h].data)]
        /\ CASE update.action = "store" ->
                    /\ seed_counts' = store(seed_counts, info_hash(h), update.count)
                    /\ stored' = [stored EXCEPT ![h] = TRUE]
                    /\ pc' = [pc EXCEPT ![h] = "relay"]
                    /\ UNCHANGED client_socket
             [] update.action = "raise" ->
                    /\ client_socket' = [client_socket EXCEPT ![h] = finally(@)]
                    /\ pc' = [pc EXCEPT ![h] = "done"]
                    /\ UNCHANGED <<seed_counts, stored>>
             [] update.action = "skip" ->
                    /\ pc' = [pc EXCEPT ![h] = "relay"]
                    /\ UNCHANGED <<seed_counts, stored, client_socket>>
        /\ UNCHANGED <<policy, request_data, seed_read, threshold_read,
                       multiplier, no_download_read, pretend_read, rewritten,
                       modified_request, tracker_response, tracker_sock, gui>>

\* line 243: sendall of the response to the client, then finally
Relay(h) ==
    /\ pc[h] = "relay"
    /\ client_socket' = [client_socket EXCEPT
            ![h] = finally(Append(@, Sent(tracker_response[h].data)))]
    /\ pc' = [pc EXCEPT ![h] = "done"]
    /\ UNCHANGED <<seed_counts, policy, locals, tracker_sock, stored, gui>>


(***************************************************************************)
(* The GUI thread: RatioGhostGUI.save_settings, one step per assignment.   *)
(* A ValueError of float() or int() ends it with the message "Invalid      *)
(* input"; the globals assigned before stay assigned.                      *)
(***************************************************************************)
\* the operator edits the panel and clicks "Save Settings"
ClickSave(inp) ==
    /\ gui_pc = "idle"
    /\ saves < MaxSaves
    /\ entries' = inp
    /\ saves' = saves + 1
    /\ gui_pc' = "low"
    /\ UNCHANGED <<seed_counts, policy, pc, locals, sockets, stored,
                   settled, config_file>>

\* line 367
SaveLow ==
    /\ gui_pc = "low"
    /\ IF ParseFloat(entries.low).ok
       THEN /\ UPLOAD_MULTIPLIER_LOW' = ParseFloat(entries.low).val
            /\ gui_pc' = "high"
            /\ UNCHANGED settled
       ELSE /\ gui_pc' = "idle"
            /\ settled' = settled \cup {Settings}
            /\ UNCHANGED UPLOAD_MULTIPLIER_LOW
    /\ UNCHANGED <<seed_counts, NO_DOWNLOAD, PRETEND_TO_SEED, MIN_SEEDERS_THRESHOLD,
                   UPLOAD_MULTIPLIER_HIGH, pc, locals, sockets, stored,
                   entries, saves, config_file>>

\* line 368
SaveHigh ==
    /\ gui_pc = "high"
    /\ IF ParseFloat(entries.high).ok
       THEN /\ UPLOAD_MULTIPLIER_HIGH' = ParseFloat(entries.high).val
            /\ gui_pc' = "threshold"
            /\ UNCHANGED settled
       ELSE /\ gui_pc' = "idle"
            /\ settled' = settled \cup {Settings}
            /\ UNCHANGED UPLOAD_MULTIPLIER_HIGH
    /\ UNCHANGED <<seed_counts, NO_DOWNLOAD, PRETEND_TO_SEED, MIN_SEEDERS_THRESHOLD,
                   UPLOAD_MULTIPLIER_LOW, pc, locals, sockets, stored,
                   entries, saves, config_file>>

\* line 369
SaveThreshold ==
    /\ gui_pc = "threshold"
    /\ IF ParseInt(entries.threshold).ok
       THEN /\ MIN_SEEDERS_THRESHOLD' = ParseInt(entries.threshold).val
            /\ gui_pc' = "no_download"
            /\ UNCHANGED settled
       ELSE /\ gui_pc' = "idle"
            /\ settled' = settled \cup {Settings}
            /\ UNCHANGED MIN_SEEDERS_THRESHOLD
    /\ UNCHANGED <<seed_counts, NO_DOWNLOAD, PRETEND_TO_SEED,
                   UPLOAD_MULTIPLIER_LOW, UPLOAD_MULTIPLIER_HIGH, pc, locals,
                   sockets, stored, entries, saves, config_file>>

\* line 370
SaveNoDownload ==
    /\ gui_pc = "no_download"
    /\ NO_DOWNLOAD' = entries.no_download
    /\ gui_pc' = "pretend"
    /\ UNCHANGED <<seed_counts, PRETEND_TO_SEED, MIN_SEEDERS_THRESHOLD,
                   UPLOAD_MULTIPLIER_LOW, UPLOAD_MULTIPLIER_HIGH, pc, locals,
                   sockets, stored, entries, saves, settled, config_file>>

\* line 371
SavePretend ==
    /\ gui_pc = "pretend"
    /\ PRETEND_TO_SEED' = entries.pretend
    /\ gui_pc' = "file"
    /\ UNCHANGED <<seed_counts, NO_DOWNLOAD, MIN_SEEDERS_THRESHOLD,
                   UPLOAD_MULTIPLIER_LOW, UPLOAD_MULTIPLIER_HIGH, pc, locals,
                   sockets, stored, entries, saves, settled, config_file>>

\* line 376: save_config() writes ratio_ghost.ini
SaveConfig ==
    /\ gui_pc = "file"
    /\ config_file' = [exists |-> TRUE, text |-> ConfigText(Settings)]
    /\ gui_pc' = "idle"
    /\ settled' = settled \cup {Settings}
    /\ UNCHANGED <<seed_counts, policy, pc, locals, sockets, stored,
                   entries, saves>>

\* The handler threads, for every request and every tracker outcome of the
\* model.
Handlers ==
    \/ \E h \in Conns : Accept(h)
    \/ \E h \in Conns : RecvFails(h)
    \/ \E h \in Conns : RecvNothing(h)
    \/ \E h \in Conns, i \in 1..Len(Requests) : RecvRequest(h, i)
    \/ \E h \in Conns : ReadSeedCount(h)
    \/ \E h \in Conns : ReadThreshold(h)
    \/ \E h \in Conns : SelectMultiplier(h)
    \/ \E h \in Conns : ReadNoDownload(h)
    \/ \E h \in Conns : ReadPretend(h)
    \/ \E h \in Conns, outcome \in Outcomes, i \in 1..Len(Replies) :
          (outcome \in Failures => i = 1) /\ Forward(h, outcome, i)
    \/ \E h \in Conns : UpdateSeedCount(h)
    \/ \E h \in Conns : Relay(h)

\* The proxy with the settings as loaded at startup: the Listener and the
\* handler threads.
Next == Handlers

Spec == Init /\ [][Next]_vars

\* The proxy while the operator saves settings: the handler threads serve
\* announces of swarm ABC, the tracker answers with a seed count of 10 or
\* of 2, and the GUI thread runs save_settings between any two of their
\* steps.
NextSettings ==
    \/ \E h \in Conns : Accept(h)
    \/ \E h \in Conns : RecvRequest(h, 1)
    \/ \E h \in Conns : ReadSeedCount(h)
    \/ \E h \in Conns : ReadThreshold(h)
    \/ \E h \in Conns : SelectMultiplier(h)
    \/ \E h \in Conns : ReadNoDownload(h)
    \/ \E h \in Conns : ReadPretend(h)
    \/ \E h \in Conns, i \in {1, 2} : Forward(h, "reply", i)
    \/ \E h \in Conns : UpdateSeedCount(h)
    \/ \E h \in Conns : Relay(h)
    \/ \E inp \in SettingsInputs : ClickSave(inp)
    \/ SaveLow
    \/ SaveHigh
    \/ SaveThreshold
    \/ SaveNoDownload
    \/ SavePretend
    \/ SaveConfig

SpecSettings == Init /\ [][NextSettings]_vars

\* The rewriting of one request: the first connection, any request a
\* client can send (the composed announces included), any of the four
\* combinations of the two check boxes on disk, and a tracker that answers.
InitRewrite == Start(PolicyFiles)

NextRewrite ==
    \/ Accept(1)
    \/ \E i \in 1..NumReceived : RecvRequest(1, i)
    \/ ReadSeedCount(1)
    \/ SelectMultiplier(1)
    \/ ReadNoDownload(1)
    \/ ReadPretend(1)
    \/ Forward(1, "reply", 1)
    \/ UpdateSeedCount(1)
    \/ Relay(1)

SpecRewrite == InitRewrite /\ [][NextRewrite]_vars

\* The decoding of one tracker reply: the first connection serves the
\* announce of swarm ABC and the tracker answers with any composed reply
\* or any map.
NextCodec ==
    \/ Accept(1)
    \/ RecvRequest(1, 1)
    \/ ReadSeedCount(1)
    \/ SelectMultiplier(1)
    \/ ReadNoDownload(1)
    \/ ReadPretend(1)
    \/ \E n \in 1..NumChunkLists(MaxChunks) : ForwardBuffer(1, n)
    \/ \E n \in 0..NumPairLists(MaxPairs) : ForwardMap(1, n)
    \/ UpdateSeedCount(1)
    \/ Relay(1)

SpecCodec == Init /\ [][NextCodec]_vars


(***************************************************************************)
(* Properties.                                                             *)
(***************************************************************************)
\* the handler of connection h got an eligible request
Eligible(h) == request_data[h] > 0 /\ Parse(request_data[h]).kind = "eligible"

\* the handler of connection h has chosen its multiplier
Selected(h) == pc[h] \in {"no_download", "pretend", "forward", "decode", "relay"}
                  \/ (pc[h] = "done" /\ tracker_sock[h] # << >>)

\* positions of the calls of one kind in a socket's record
Calls(sock, op) == {k \in 1..Len(sock) : sock[k].op = op}

\* C1: for every eligible request the multiplier the handler selects is
\* UPLOAD_MULTIPLIER_HIGH exactly when seed_counts held a count for the
\* request's info_hash at the lookup and that count is >=
\* MIN_SEEDERS_THRESHOLD; in every other case, an info_hash never seen
\* included, it is UPLOAD_MULTIPLIER_LOW.
C1_MultiplierSelection ==
    [][\A h \in Conns :
        /\ (pc[h] = "lookup" /\ pc'[h] # "lookup") =>
              /\ seed_read'[h].known = (info_hash(h) \in DOMAIN seed_counts)
              /\ seed_read'[h].known => seed_read'[h].count = seed_counts[info_hash(h)]
        /\ (pc[h] = "threshold" /\ pc'[h] # "threshold") =>
              threshold_read'[h] = MIN_SEEDERS_THRESHOLD
        /\ (pc[h] = "multiplier" /\ pc'[h] # "multiplier") =>
              /\ Eligible(h)
              /\ multiplier'[h] =
                    IF seed_read[h].known /\ seed_read[h].count >= threshold_read[h]
                    THEN UPLOAD_MULTIPLIER_HIGH
                    ELSE UPLOAD_MULTIPLIER_LOW
       ]_vars

\* C1 witness: a handler found a count equal to the threshold and took the
\* high multiplier, while another found its swarm unknown and took the low
\* one.
C1_Witness ==
    \E h, g \in Conns :
        /\ Selected(h) /\ seed_read[h].known
        /\ seed_read[h].count = MIN_SEEDERS_THRESHOLD
        /\ multiplier[h] = UPLOAD_MULTIPLIER_HIGH
        /\ Selected(g) /\ ~seed_read[g].known
        /\ multiplier[g] = UPLOAD_MULTIPLIER_LOW

\* C2: no request influences its own multiplier: a handler stores its
\* reply's seed count only after its request has gone out to the tracker,
\* and from then on neither what it read from seed_counts nor its
\* multiplier changes, whatever the other handlers do.
C2_ReadBeforeOwnWrite ==
    [][\A h \in Conns :
        /\ stored'[h] => tracker_sock[h] # << >> /\ Selected(h)
        /\ (stored[h] \/ stored'[h]) =>
              /\ seed_read'[h] = seed_read[h]
              /\ multiplier'[h] = multiplier[h]
              /\ tracker_sock'[h] = tracker_sock[h]
       ]_vars

\* C2 witness: two handlers of one swarm ran side by side; both chose the
\* low multiplier for an unknown swarm although one has stored a count at
\* or above the threshold since.
C2_Witness ==
    \E h, g \in Conns :
        /\ h # g /\ Eligible(h) /\ Eligible(g)
        /\ info_hash(h) = info_hash(g)
        /\ stored[h] /\ Selected(g) /\ ~stored[g]
        /\ ~seed_read[h].known /\ ~seed_read[g].known
        /\ multiplier[h] = UPLOAD_MULTIPLIER_LOW
        /\ multiplier[g] = UPLOAD_MULTIPLIER_LOW
        /\ seed_counts[info_hash(h)] >= MIN_SEEDERS_THRESHOLD

\* C3: seed_counts changes only in the step of a handler whose request was
\* eligible and whose tracker response decoded as a map, and then only in
\* the entry of that request's info_hash: a response that fails to decode
\* or decodes to something else, an ineligible request and a failed
\* forwarding leave every entry as it was.
C3_StoreChangesOnlyOnMap ==
    [][seed_counts' # seed_counts =>
        \E h \in Conns :
            /\ pc[h] = "decode" /\ pc'[h] = "relay"
            /\ Eligible(h)
            /\ ~tracker_response[h].none
            /\ bdecode(tracker_response[h].data).ok
            /\ bdecode(tracker_response[h].data).val.type = "dict"
            /\ DOMAIN seed_counts' = DOMAIN seed_counts \cup {info_hash(h)}
            /\ \A k \in DOMAIN seed_counts :
                  k # info_hash(h) => seed_counts'[k] = seed_counts[k]
       ]_vars

\* C3 witness: a known swarm's count of 10 survived a later response that
\* was truncated or a bare integer, and that response was relayed.
C3_Witness ==
    \E h, g \in Conns :
        /\ stored[h] /\ pc[h] = "done"
        /\ pc[g] = "done" /\ Eligible(g) /\ ~stored[g]
        /\ info_hash(g) = info_hash(h)
        /\ ~tracker_response[g].none
        /\ tracker_response[g].data \in {ReplyTruncated, ReplyInt}
        /\ Calls(client_socket[g], "sendall") # {}
        /\ seed_counts[info_hash(h)] = 10


\* the handler of connection h got a response from forward_to_tracker
\* (neither None nor b"")
GotResponse(h) == ~tracker_response[h].none /\ tracker_response[h].data # << >>

\* C4: whenever forward_to_tracker returns a non-empty response the handler
\* sends exactly those bytes to the client before it closes, whatever the
\* response holds.
C4_ReplyAlwaysRelayed ==
    \A h \in Conns :
        (pc[h] = "done" /\ GotResponse(h)) =>
            /\ Cardinality(Calls(client_socket[h], "sendall")) = 1
            /\ \A k \in Calls(client_socket[h], "sendall") :
                  /\ client_socket[h][k].data = tracker_response[h].data
                  /\ \A c \in Calls(client_socket[h], "close") : k < c

\* C5: on every path the handler writes to the client either exactly the
\* tracker's response or nothing; for an ineligible request it writes
\* nothing.
C5_OnlyResponseBytes ==
    \A h \in Conns :
        \A k \in Calls(client_socket[h], "sendall") :
            /\ Eligible(h)
            /\ GotResponse(h)
            /\ client_socket[h][k].data = tracker_response[h].data

\* C6: a handler opens at most one connection to the tracker and sends at
\* most one request on it, whatever fails, and opens none unless its
\* request is eligible (so none after an empty read, an ineligible request
\* or a URL that does not resolve).
C6_AtMostOneForward ==
    \A h \in Conns :
        /\ Cardinality(Calls(tracker_sock[h], "connect")) <= 1
        /\ Cardinality(Calls(tracker_sock[h], "sendall")) <= 1
        /\ tracker_sock[h] # << >> => Eligible(h)
        /\ (pc[h] = "done" /\ ~Eligible(h)) => tracker_sock[h] = << >>

\* C6 witness: one handler's write to the tracker failed and it is done
\* after that one attempt; another is done with an unresolvable URL and
\* never connected.
C6_Witness ==
    \E h, g \in Conns :
        /\ pc[h] = "done"
        /\ \E k \in Calls(tracker_sock[h], "sendall") : ~tracker_sock[h][k].ok
        /\ Cardinality(Calls(tracker_sock[h], "connect")) = 1
        /\ pc[g] = "done" /\ request_data[g] > 0
        /\ Parse(request_data[g]).kind = "bad_url"
        /\ tracker_sock[g] = << >>

\* C7: when forwarding fails or yields no bytes, the handler sends nothing
\* to the client, has stored no seed count, and closes the client socket.
C7_NoResponseNoData ==
    \A h \in Conns :
        (pc[h] = "done" /\ tracker_sock[h] # << >> /\ ~GotResponse(h)) =>
            /\ client_socket[h] = <<Closed>>
            /\ ~stored[h]

\* C7 witness: one handler's read from the tracker failed, another's
\* tracker closed without sending a byte; both are done.
C7_Witness ==
    \E h, g \in Conns :
        /\ pc[h] = "done" /\ tracker_response[h].none
        /\ \E k \in Calls(tracker_sock[h], "recv") : ~tracker_sock[h][k].ok
        /\ pc[g] = "done" /\ ~tracker_response[g].none
        /\ tracker_response[g].data = << >>
        /\ \E k \in Calls(tracker_sock[g], "recv") : tracker_sock[g][k].ok

\* C8: a handler that has returned has closed the client socket, on every
\* path; nothing is written to the client socket after a close; and
\* whatever the handlers do, the Listener can accept the next connection.
C8_AlwaysClosed ==
    \A h \in Conns :
        /\ pc[h] = "done" => Calls(client_socket[h], "close") # {}
        /\ \A k \in Calls(client_socket[h], "sendall") :
              \A c \in Calls(client_socket[h], "close") : k < c
        /\ (pc[h] = "listen" /\ \A g \in Conns : g < h => pc[g] # "listen")
              => ENABLED Accept(h)

\* C8 witness: int() raised in one handler after a response had come, that
\* handler is done with the socket closed and nothing sent, and the
\* Listener has accepted a later connection.
C8_Witness ==
    \E h, g \in Conns :
        /\ h < g
        /\ pc[h] = "done" /\ GotResponse(h)
        /\ client_socket[h] = <<Closed>>
        /\ pc[g] = "recv"

\* C9: whenever the response to an eligible request decodes as a map, the
\* handler sets seed_counts[info_hash] to the "complete" count of the map.
C9_MapReplySetsCount ==
    [][\A h \in Conns :
        (/\ pc[h] = "decode" /\ pc'[h] # "decode"
         /\ bdecode(tracker_response[h].data).ok
         /\ bdecode(tracker_response[h].data).val.type = "dict") =>
            LET complete == DictGet(bdecode(tracker_response[h].data).val.val,
                                    PyBytes(kw_complete), PyInt(0))
            IN  /\ info_hash(h) \in DOMAIN seed_counts'
                /\ complete.type = "int" =>
                      seed_counts'[info_hash(h)] = complete.val
       ]_vars

\* the handler of connection h has read all the policy values it reads
ReadAll(h) == pc[h] \in {"forward", "decode", "relay"}
                 \/ (pc[h] = "done" /\ tracker_sock[h] # << >>)

\* what handler h read agrees with the settings cfg
ReadFrom(h, cfg) ==
    /\ seed_read[h].known => threshold_read[h] = cfg.min_seeders_threshold
    /\ multiplier[h] =
          IF seed_read[h].known /\ seed_read[h].count >= threshold_read[h]
          THEN cfg.upload_multiplier_high
          ELSE cfg.upload_multiplier_low
    /\ no_download_read[h] = cfg.no_download
    /\ pretend_read[h] = cfg.pretend_to_seed

\* C10: the policy values a handler used for one request all belong to one
\* version of the settings, one that stood before or after a save, also
\* when save_settings runs at the same time.
C10_ConsistentSnapshot ==
    \A h \in Conns :
        (gui_pc = "idle" /\ ReadAll(h)) => \E cfg \in settled : ReadFrom(h, cfg)


(***************************************************************************)
(* The forwarded request, field by field.                                  *)
(***************************************************************************)
RECURSIVE split_fields(_)
\* the fields of a query: the texts between its "&"
split_fields(query) ==
    LET amp == RunEndNotIn(query, 0, {"&"})
    IN  IF amp = Len(query) THEN <<query>>
        ELSE <<Slice(query, 0, amp)>>
                \o split_fields(Slice(query, amp + 1, Len(query)))

\* the name of a field: what stands before its first "="
field_name(field) == Slice(field, 0, RunEndNotIn(field, 0, {"="}))

\* the value of a field: what stands after its first "="
field_value(field) == Slice(field, RunEndNotIn(field, 0, {"="}) + 1, Len(field))

\* the handler of connection h has put its request for the tracker together
Built(h) == pc[h] \in {"forward", "decode", "relay"}
               \/ (pc[h] = "done" /\ tracker_sock[h] # << >>)

\* the query of the request line handler h built for the tracker
forwarded_query(h) ==
    Slice(modified_request[h], IndexOf(modified_request[h], "?", 0) + 1,
          IndexOf(modified_request[h], " ", 4))

\* the query handler h received
original_query(h) == Parse(request_data[h]).query

\* positions of the fields with the given name
Named(fields, name) == {k \in 1..Len(fields) : field_name(fields[k]) = name}

\* the first of a non-empty set of positions
First(positions) == CHOOSE k \in positions : \A j \in positions : k <= j

\* C11: in the forwarded query every field other than uploaded, downloaded
\* and left is byte-identical to the original and in the same position,
\* whatever its name and value; the downloaded field is unaltered when
\* NO_DOWNLOAD is off and the left field is unaltered when PRETEND_TO_SEED
\* is off.
C11_UntargetedFieldsKept ==
    \A h \in Conns :
        (Eligible(h) /\ Built(h)) =>
            LET original == split_fields(original_query(h))
                forwarded == split_fields(forwarded_query(h))
            IN  /\ Len(forwarded) = Len(original)
                /\ \A k \in 1..Len(original) :
                      \/ field_name(original[k]) = kw_uploaded
                      \/ field_name(original[k]) = kw_downloaded /\ no_download_read[h]
                      \/ field_name(original[k]) = kw_left /\ pretend_read[h]
                      \/ forwarded[k] = original[k]

\* C12: with NO_DOWNLOAD on and a downloaded field in the query, the
\* forwarded query carries downloaded=0 in its place whatever the value
\* was, an empty value included; the same for PRETEND_TO_SEED and left.
C12_ForcedToZero ==
    \A h \in Conns :
        (Eligible(h) /\ Built(h)) =>
            LET original == split_fields(original_query(h))
                forwarded == split_fields(forwarded_query(h))
            IN  /\ (no_download_read[h] /\ Named(original, kw_downloaded) # {}) =>
                      forwarded[First(Named(original, kw_downloaded))]
                          = kw_downloaded \o <<"=", "0">>
                /\ (pretend_read[h] /\ Named(original, kw_left) # {}) =>
                      forwarded[First(Named(original, kw_left))]
                          = kw_left \o <<"=", "0">>

\* C13: for an eligible request with an uploaded field the forwarded
\* uploaded value is the original value (0 when it is no number) times the
\* multiplier the handler selected, and only the first uploaded field is
\* replaced.
C13_UploadedMultiplied ==
    \A h \in Conns :
        (Eligible(h) /\ Built(h) /\ Named(split_fields(original_query(h)), kw_uploaded) # {}) =>
            LET original == split_fields(original_query(h))
                forwarded == split_fields(forwarded_query(h))
                first == First(Named(original, kw_uploaded))
                value == ParseInt(field_value(original[first]))
            IN  /\ field_name(forwarded[first]) = kw_uploaded
                /\ ParseFloat(field_value(forwarded[first])).ok
                /\ ParseFloat(field_value(forwarded[first])).val
                      = (IF value.ok THEN value.val ELSE 0) * multiplier[h]
                /\ \A k \in Named(original, kw_uploaded) :
                      k # first => forwarded[k] = original[k]

\* the first line of the text: what stands before the first CR LF
first_line(text) == Head(split_lines(text))

\* C17: a request is rewritten and forwarded to the tracker only if its
\* first line is "GET <absolute http URI> HTTP/1.0" or "... HTTP/1.1" and
\* the query of that URI holds info_hash; text of that shape on a later
\* line or after other text does not make a request eligible.
C17_FirstLineDecides ==
    \A h \in Conns :
        tracker_sock[h] # << >> =>
            LET line == first_line(DecodeIgnore(Received(request_data[h])))
            IN  /\ GetMatchesAt(line, 0)
                /\ Len(line) = RunEndNotIn(line, Len(GetPrefix), {" "})
                                  + Len(VersionPrefix) + 1
                /\ Contains(query_string(url_match(get_match(line).url).path),
                            kw_info_hash \o <<"=">>)


(***************************************************************************)
(* Tracker replies as the decoder meets them.                              *)
(***************************************************************************)
\* handler h has run bdecode on its tracker response
DecodeActed(h) == pc[h] = "relay" \/ (pc[h] = "done" /\ GotResponse(h))

\* the openers and whole items a buffer can begin with before a value
PrefixTokens == {<<"l">>, <<"d">>, <<"i", "1", "e">>, <<"1", ":", "a">>}

RECURSIVE OnlyTokens(_)
OnlyTokens(str) ==
    \/ str = << >>
    \/ \E t \in PrefixTokens :
          /\ StartsWithAt(str, t, 0)
          /\ OnlyTokens(Slice(str, Len(t), Len(str)))

\* index p of data is where a value (or the end of a list or map) is due:
\* the start of the buffer, or after an opener followed by openers and
\* whole items
ValuePosition(data, p) ==
    \/ p = 0
    \/ At(data, 0) \in {"l", "d"} /\ OnlyTokens(Slice(data, 0, p))

\* at p a byte string declares more bytes than the buffer has left
OverlongAt(data, p) ==
    LET colon == IndexOf(data, ":", p)
    IN  /\ At(data, p) \in Digits
        /\ colon # -1
        /\ \A k \in p..(colon - 1) : At(data, k) \in Digits
        /\ DigitsValue(Slice(data, p, colon), 0) > Len(data) - (colon + 1)

\* C14: bdecode raises on every buffer in which a byte string's declared
\* length exceeds the bytes left in the buffer, whether the string is the
\* top-level value, a list element, a map key or a map value.
C14_OverlongStringFails ==
    \A h \in Conns :
        DecodeActed(h) =>
            \A p \in 0..Len(tracker_response[h].data) :
                (/\ ValuePosition(tracker_response[h].data, p)
                 /\ OverlongAt(tracker_response[h].data, p)) => ~decoded[h].ok

\* at p an integer starts and no "e" follows
IntWithoutEnd(data, p) == At(data, p) = "i" /\ IndexOf(data, "e", p + 1) = -1

\* at p a length prefix starts and no ":" follows
LengthWithoutColon(data, p) == At(data, p) \in Digits /\ IndexOf(data, ":", p) = -1

\* at p stands a byte no value starts with (inside a list or map "e" is
\* the terminator); the empty buffer has such a byte at 0
BadLeadByte(data, p) ==
    /\ At(data, p) \notin {"i", "l", "d"} \cup Digits
    /\ p > 0 => At(data, p) \notin {"e", ""}

\* the buffer ends at p inside a list or map
Unterminated(data, p) == p > 0 /\ p = Len(data)

\* C15: bdecode raises on every buffer in which an integer has no
\* terminating "e", a length prefix has no ":", a value starts with a byte
\* that is none of "i", "l", "d" and the digits, or a list or map reaches
\* the end of the buffer without its closing "e".
C15_MalformedFails ==
    \A h \in Conns :
        DecodeActed(h) =>
            \A p \in 0..Len(tracker_response[h].data) :
                (/\ ValuePosition(tracker_response[h].data, p)
                 /\ \/ IntWithoutEnd(tracker_response[h].data, p)
                    \/ LengthWithoutColon(tracker_response[h].data, p)
                    \/ BadLeadByte(tracker_response[h].data, p)
                    \/ Unterminated(tracker_response[h].data, p)) => ~decoded[h].ok

\* C15 witness: the decoder has raised on a list that holds one integer and
\* ends without its "e".
C15_Witness ==
    \E h \in Conns :
        /\ DecodeActed(h)
        /\ tracker_response[h].data = <<"l", "i", "1", "e">>
        /\ ~decoded[h].ok
        /\ Calls(client_socket[h], "sendall") # {}

RECURSIVE read_pairs(_)
\* the pairs of a well-formed map of the keys and values above, read off
\* the text after its "d" by matching the encodings one after another
read_pairs(rest) ==
    IF rest = <<"e">> THEN [ok |-> TRUE, pairs |-> << >>]
    ELSE LET fits == {q \in 1..NumPairs :
                        StartsWithAt(rest, bencode_pairs(<<Pair(q)>>), 0)}
         IN  IF fits = {} THEN [ok |-> FALSE, pairs |-> << >>]
             ELSE LET q == CHOOSE f \in fits : TRUE
                      more == read_pairs(Slice(rest, Len(bencode_pairs(<<Pair(q)>>)),
                                               Len(rest)))
                  IN  [ok |-> more.ok, pairs |-> <<Pair(q)>> \o more.pairs]

\* the value of the last pair with the given key
LastValue(pairs, key) ==
    pairs[CHOOSE k \in 1..Len(pairs) :
            /\ pairs[k].k = key
            /\ \A j \in (k + 1)..Len(pairs) : pairs[j].k # key].v

\* C16: decoding the encoding of a map of byte-string keys and integer
\* values yields exactly that map: every key of the buffer with the value
\* of its last occurrence, each key once, and nothing else.
C16_MapRoundTrip ==
    \A h \in Conns :
        (/\ DecodeActed(h)
         /\ At(tracker_response[h].data, 0) = "d"
         /\ read_pairs(Tail(tracker_response[h].data)).ok) =>
            LET pairs == read_pairs(Tail(tracker_response[h].data)).pairs
                items == decoded[h].val.val
            IN  /\ decoded[h].ok
                /\ decoded[h].val.type = "dict"
                /\ \A k \in 1..Len(pairs) :
                      \E i \in 1..Len(items) : items[i].k = PyBytes(pairs[k].k)
                /\ \A i \in 1..Len(items) :
                      /\ \E k \in 1..Len(pairs) : items[i].k = PyBytes(pairs[k].k)
                      /\ items[i].v = PyInt(LastValue(pairs, items[i].k.val))
                      /\ \A j \in 1..Len(items) : items[j].k = items[i].k => j = i

\* C16 witness: the decoder has read a map in which complete occurs twice,
\* with 5 and then 1800, and incomplete once.
C16_Witness ==
    \E h \in Conns :
        /\ DecodeActed(h)
        /\ tracker_response[h].data =
              bencode_map(<<[k |-> kw_complete, v |-> 5],
                            [k |-> kw_incomplete, v |-> 2],
                            [k |-> kw_complete, v |-> 1800]>>)
        /\ decoded[h].val.val = <<[k |-> PyBytes(kw_complete), v |-> PyInt(1800)],
                                  [k |-> PyBytes(kw_incomplete), v |-> PyInt(2)]>>
        /\ seed_counts[info_hash(h)] = 1800


(***************************************************************************)
(* The store and the reply to the client.                                  *)
(***************************************************************************)
\* the reply of handler h has been written to the client socket
ReplySent(h) == Calls(client_socket[h], "sendall") # {}

\* the tracker response of handler h decoded as a map
DecodedMap(h) == decoded[h].ok /\ decoded[h].val.type = "dict"

\* the seeder count of the reply handler h decoded: int() of its
\* "complete", 0 where the map has none
reply_count(h) ==
    to_int(DictGet(decoded[h].val.val, PyBytes(kw_complete), PyInt(0)))

\* C18: whenever a client has been sent the reply to an announce and that
\* reply decoded as a map, seed_counts already holds an entry for the
\* announce's info_hash, stored by this handler, and the entry is this
\* reply's seed count or the count another handler of the same swarm has
\* stored since.
C18_StoredBeforeReply ==
    \A h \in Conns :
        (ReplySent(h) /\ DecodedMap(h)) =>
            /\ stored[h]
            /\ info_hash(h) \in DOMAIN seed_counts
            /\ \E g \in Conns :
                  /\ stored[g] /\ info_hash(g) = info_hash(h)
                  /\ reply_count(g).ok
                  /\ seed_counts[info_hash(h)] = reply_count(g).val

\* the map has no key "complete"
WithoutComplete(dec) == ~HasKey(dec.val.val, PyBytes(kw_complete))

\* C19: a response that decodes as a non-empty map without "complete"
\* sets seed_counts[info_hash] to 0, whatever was stored there, and leaves
\* the other entries; a response that decodes as the empty map changes no
\* entry of seed_counts; and no step of the handler of a request whose
\* info_hash value is empty changes an entry.
C19_MissingCountIsZero ==
    [][\A h \in Conns :
        LET dec == bdecode(tracker_response[h].data)
        IN  /\ (/\ pc[h] = "decode" /\ pc'[h] # "decode"
                /\ dec.ok /\ dec.val.type = "dict" /\ dec.val.val # << >>
                /\ WithoutComplete(dec) /\ info_hash(h) # << >>) =>
                   /\ DOMAIN seed_counts' = DOMAIN seed_counts \cup {info_hash(h)}
                   /\ seed_counts'[info_hash(h)] = 0
                   /\ \A k \in DOMAIN seed_counts :
                         k # info_hash(h) => seed_counts'[k] = seed_counts[k]
            /\ (/\ pc[h] = "decode" /\ pc'[h] # "decode"
                /\ dec.ok /\ dec.val.type = "dict" /\ dec.val.val = << >>) =>
                   seed_counts' = seed_counts
            /\ (/\ pc'[h] # pc[h] /\ request_data'[h] > 0
                /\ Parse(request_data'[h]).info_hash = << >>) =>
                   seed_counts' = seed_counts
       ]_vars

\* C19 witness: a handler found the count 10 stored for its swarm, its own
\* response was a map with an interval only, and the swarm's count is 0
\* now; the response went on to the client.
C19_Witness ==
    \E h \in Conns :
        /\ pc[h] = "done" /\ stored[h]
        /\ seed_read[h].known /\ seed_read[h].count = 10
        /\ tracker_response[h].data = ReplyNoComplete
        /\ seed_counts[info_hash(h)] = 0
        /\ ReplySent(h)


(***************************************************************************)
(* save_settings as a whole.                                               *)
(***************************************************************************)
\* float() and int() accept the three entry texts
ValidEntries(inp) ==
    /\ ParseFloat(inp.low).ok
    /\ ParseFloat(inp.high).ok
    /\ ParseInt(inp.threshold).ok

\* the five values the panel holds
EnteredSettings(inp) ==
    [no_download |-> inp.no_download, pretend_to_seed |-> inp.pretend,
     min_seeders_threshold |-> ParseInt(inp.threshold).val,
     upload_multiplier_low |-> ParseFloat(inp.low).val,
     upload_multiplier_high |-> ParseFloat(inp.high).val]

\* C20: saving is all-or-nothing.  While save_settings runs on entries of
\* which one of the three numbers is invalid, no step changes any of the
\* five policy values or ratio_ghost.ini; and when save_settings ends on
\* valid entries, the five values are those of the panel, the file is
\* written, and load_config reads the same five values back from it.
C20_SaveAllOrNothing ==
    [][/\ (gui_pc # "idle" /\ ~ValidEntries(entries)) =>
             /\ Settings' = Settings
             /\ config_file' = config_file
       /\ (gui_pc # "idle" /\ gui_pc' = "idle" /\ ValidEntries(entries)) =>
             /\ Settings' = EnteredSettings(entries)
             /\ config_file'.exists
             /\ load_config(config_file') = Settings'
      ]_vars

=============================================================================
